---- MODULE Spec2Model ----
(***************************************************************************)
(* A model of yyj_scraper.py: parse_flights (row extraction and the        *)
(* resolution of year-less date labels and 12-hour clock texts into UTC    *)
(* instants), add_flights / update_flights against the flights collection, *)
(* and the sequence of steps of main.                                      *)
(*                                                                         *)
(* Conventions.  A datetime is a record [year, month, day, minute] with    *)
(* minute the minute of the day.  A date label ("%a %b %d") is a record    *)
(* [month, day]: the weekday name that strftime writes is not used by      *)
(* strptime to compute the date, and the year is dropped by the format.    *)
(* A clock text ("%I:%M %p") is a record [h, mi, ap].  A UTC instant is    *)
(* a number of minutes: the proleptic Gregorian ordinal of its UTC day      *)
(* times the minutes of a day, plus the minute of that day.                *)
(***************************************************************************)
EXTENDS Integers, Sequences, FiniteSets, TLC

VARIABLES
    now,             \* the date of the scrape (datetime.now())
    pc,              \* position of main: the next statement to execute
    err,             \* the exception that ended the run, "none" otherwise
    collabFailed,    \* TRUE once a collaborator (fetch, store) has failed
    run,             \* number of the current invocation of main
    flight_table,    \* main's flight_table (the "flightsToday" rows)
    delayed_flights, \* main's delayed_flights (rows, then parsed records)
    flights,         \* main's flights (records parsed from today's board)
    store,           \* the flights collection: documents in insertion order
    updated,         \* update_flights' counter
    idx,             \* update_flights' loop position in delayed_flights
    issued,          \* number of update_one calls issued by this run
    applied,         \* the last two applied update_one calls, oldest first
    reconciled,      \* per document: times an update_one has modified it
    table,           \* parse harness: the table argument
    delayed,         \* parse harness: the delayed argument
    result           \* parse harness: what parse_flights returned or raised

vars == <<now, pc, err, collabFailed, run, flight_table, delayed_flights,
          flights, store, updated, idx, issued, applied,
          reconciled, table, delayed, result>>

mainVars == <<pc, err, collabFailed, run, flight_table, delayed_flights,
              flights, store, updated, idx, issued, applied,
              reconciled>>

harnessVars == <<table, delayed, result>>

----------------------------------------------------------------------------
(* Bounds of the model.                                                    *)

MaxTable == 3      \* longest table handed to parse_flights in SpecParse
MaxBoard == 1      \* longest board fetched by main in Spec
MaxRuns == 3       \* invocations of main in Spec

----------------------------------------------------------------------------
(* The calendar, as datetime computes it.                                  *)

MinutesPerDay == 24 * 60

IsLeap(y) == (y % 4 = 0) /\ ((y % 100 # 0) \/ (y % 400 = 0))

DaysInMonth(y, m) ==
    IF m = 2 THEN (IF IsLeap(y) THEN 29 ELSE 28)
    ELSE IF m \in {4, 6, 9, 11} THEN 30 ELSE 31

DaysBeforeYear(y) ==
    LET p == y - 1 IN p * 365 + (p \div 4) - (p \div 100) + (p \div 400)

RECURSIVE DaysBeforeMonth(_, _)
DaysBeforeMonth(y, m) ==
    IF m = 1 THEN 0 ELSE DaysBeforeMonth(y, m - 1) + DaysInMonth(y, m - 1)

\* datetime.toordinal(): the proleptic Gregorian day number of a date.
ToOrdinal(dt) ==
    DaysBeforeYear(dt.year) + DaysBeforeMonth(dt.year, dt.month) + dt.day

\* dt - timedelta(days=1)
MinusOneDay(dt) ==
    IF dt.day > 1 THEN [dt EXCEPT !.day = dt.day - 1]
    ELSE IF dt.month > 1
         THEN [dt EXCEPT !.month = dt.month - 1,
                         !.day = DaysInMonth(dt.year, dt.month - 1)]
         ELSE [dt EXCEPT !.year = dt.year - 1, !.month = 12, !.day = 31]

\* dt + timedelta(days=1): the next run of the job on the following day.
PlusOneDay(dt) ==
    IF dt.day < DaysInMonth(dt.year, dt.month)
    THEN [dt EXCEPT !.day = dt.day + 1]
    ELSE IF dt.month < 12
         THEN [dt EXCEPT !.month = dt.month + 1, !.day = 1]
         ELSE [dt EXCEPT !.year = dt.year + 1, !.month = 1, !.day = 1]

\* dt.strftime("%a %b %d"): the label keeps the month and the day only.
Strftime(dt) == [month |-> dt.month, day |-> dt.day]

\* The year strptime gives a datetime parsed from a format without %Y.
StrptimeDefaultYear == 1900

\* "%I:%M %p": the minute of the day, or -1 when the text does not match.
ParseClock(t) ==
    IF t.h \in 1..12 /\ t.mi \in 0..59 /\ t.ap \in {"AM", "PM"}
    THEN ((t.h % 12) + (IF t.ap = "PM" THEN 12 ELSE 0)) * 60 + t.mi
    ELSE -1

\* datetime.strptime(label, "%a %b %d"): year 1900, midnight; ValueError
\* when the day does not exist in 1900 (Feb 29).
StrptimeDate(label) ==
    IF label.day \in 1..DaysInMonth(StrptimeDefaultYear, label.month)
    THEN [ok |-> TRUE,
          dt |-> [year |-> StrptimeDefaultYear, month |-> label.month,
                  day |-> label.day, minute |-> 0]]
    ELSE [ok |-> FALSE]

\* datetime.strptime(label + " " + clock, "%a %b %d %I:%M %p")
Strptime(label, clock) ==
    LET d == StrptimeDate(label)
        c == ParseClock(clock)
    IN  IF d.ok /\ c >= 0
        THEN [ok |-> TRUE, dt |-> [d.dt EXCEPT !.minute = c]]
        ELSE [ok |-> FALSE]

\* dt.replace(year=y)
ReplaceYear(dt, y) == [dt EXCEPT !.year = y]

\* Minutes the site's wall clock is behind UTC (Pacific standard time).
SiteOffsetMin == 8 * 60

\* dt.astimezone(timezone.utc) of a naive datetime: the instant in UTC.
AsUtc(dt) == ToOrdinal(dt) * MinutesPerDay + dt.minute + SiteOffsetMin

\* The local calendar day and clock of an instant (to read results back).
LocalDay(ts) == (ts - SiteOffsetMin) \div MinutesPerDay
LocalClock(ts) == (ts - SiteOffsetMin) % MinutesPerDay

----------------------------------------------------------------------------
(* Rows of the board.  A row is [cls, sched, bubble, tds]: its class, the  *)
(* text of its first div, the second time of its delay bubble (<<>> when   *)
(* the row has no bubble) and its td cells in document order.  A cell is   *)
(* [kind, text]; the gate cell is the one of class "ft-gate" and the       *)
(* carrier cell is the one that holds the span.                            *)

Clock(h, mi, ap) == [h |-> h, mi |-> mi, ap |-> ap]

CarrierCell == [kind |-> "carrier", text |-> "WestJet"]
FlightCell(num) == [kind |-> "flight", text |-> num]
RouteCell == [kind |-> "route", text |-> "Calgary"]
GateCell == [kind |-> "gate", text |-> "4"]

Row(cls, num, sched, bubble) ==
    [cls |-> cls, sched |-> sched, bubble |-> bubble,
     tds |-> <<CarrierCell, FlightCell(num), RouteCell, GateCell>>]

RowOnTime == Row("departure", "WS197", Clock(10, 0, "AM"), <<>>)
RowLate == Row("departure", "WS197", Clock(10, 0, "AM"), <<Clock(11, 0, "AM")>>)
RowLater == Row("departure", "WS197", Clock(10, 0, "AM"), <<Clock(11, 45, "PM")>>)
RowPastMidnight ==
    Row("arrival", "AC8", Clock(11, 45, "PM"), <<Clock(12, 30, "AM")>>)
RowNoGate ==
    [RowOnTime EXCEPT !.tds = <<CarrierCell, FlightCell("WS197"), RouteCell>>]
RowNoCarrier ==
    [RowOnTime EXCEPT !.tds = <<FlightCell("WS197"), RouteCell, GateCell>>]
RowNoRoute ==
    [RowOnTime EXCEPT !.tds = <<CarrierCell, FlightCell("WS197"), GateCell>>]
RowNoFlightNum ==
    [RowOnTime EXCEPT !.tds = <<CarrierCell, RouteCell, GateCell>>]
RowTwoCells == [RowOnTime EXCEPT !.tds = <<CarrierCell, GateCell>>]
RowBadSched == Row("arrival", "AC8", Clock(23, 45, ""), <<>>)
RowBadBubble ==
    Row("arrival", "AC8", Clock(10, 0, "AM"), <<Clock(11, 0, "")>>)

\* What get_flights returns: the rows of the table, or None (found = FALSE)
\* when the page has no table of that id.
Board(rows) == [found |-> TRUE, rows |-> rows]
NoTable == [found |-> FALSE, rows |-> <<>>]

BoundedSeq(S, n) == UNION {[1..k -> S] : k \in 0..n}

----------------------------------------------------------------------------
(* parse_flights                                                           *)

\* row.find("td", class_="ft-gate") / row.find("span"): the first cell of
\* that kind, <<>> for None.
FindCell(row, kind) ==
    LET hits == {j \in 1..Len(row.tds) : row.tds[j].kind = kind}
    IN  IF hits = {} THEN <<>>
        ELSE <<row.tds[CHOOSE j \in hits : \A l \in hits : j <= l]>>

Raised(exc) == [status |-> exc, flights |-> <<>>]

\* The record of one row, once its fields and timestamps are known.
FlightOf(row, sched, actual) ==
    LET base == [gate |-> FindCell(row, "gate")[1].text,
                 airline |-> FindCell(row, "carrier")[1].text,
                 src_dest |-> row.tds[3].text,
                 flight_num |-> row.tds[2].text,
                 scheduled_timestamp |-> sched,
                 type |-> IF row.cls = "departure" THEN "departure"
                          ELSE "arrival"]
    IN  IF actual = <<>> THEN base
        ELSE [f \in DOMAIN base \cup {"actual_timestamp"} |->
                 IF f = "actual_timestamp" THEN actual[1] ELSE base[f]]

\* The date label the scheduled time of a row is composed with: the label
\* itself, or (delayed) the label of the day before, which also becomes the
\* label of the rows that follow.
ShiftedDate(date, dly) ==
    IF dly THEN Strftime(MinusOneDay(StrptimeDate(date).dt)) ELSE date

\* The body of the loop over the rows, from row i on, with the date label
\* and the records built so far.
RECURSIVE ParseLoop(_, _, _, _, _, _)
ParseLoop(rows, i, date, acc, year, dly) ==
    IF i > Len(rows) THEN [status |-> "ok", flights |-> acc]
    ELSE
      LET row == rows[i] IN
      IF "sched" \notin DOMAIN row THEN Raised("AttributeError")
      ELSE IF FindCell(row, "gate") = <<>> \/ FindCell(row, "carrier") = <<>>
      THEN ParseLoop(rows, i + 1, date, acc, year, dly)
      ELSE IF Len(row.tds) < 3 THEN Raised("IndexError")
      ELSE
        LET act == IF row.bubble # <<>> THEN Strptime(date, row.bubble[1])
                   ELSE [ok |-> TRUE]
        IN
        IF ~act.ok THEN Raised("ValueError")
        ELSE IF dly /\ ~StrptimeDate(date).ok THEN Raised("ValueError")
        ELSE
          LET date2 == ShiftedDate(date, dly)
              sch == Strptime(date2, row.sched)
              actual == IF row.bubble # <<>>
                        THEN <<AsUtc(ReplaceYear(act.dt, year))>>
                        ELSE <<>>
          IN
          IF ~sch.ok THEN Raised("ValueError")
          ELSE ParseLoop(rows, i + 1, date2,
                         Append(acc, FlightOf(row,
                                    AsUtc(ReplaceYear(sch.dt, year)), actual)),
                         year, dly)

\* parse_flights(table, delayed=dly), called on the day nowdt.
parse_flights(tbl, nowdt, dly) ==
    IF ~tbl.found THEN Raised("TypeError")
    ELSE ParseLoop(tbl.rows, 1, Strftime(nowdt), <<>>, nowdt.year, dly)

----------------------------------------------------------------------------
(* The parse harness: parse_flights applied to a table, a scrape date and  *)
(* the delayed flag drawn from bounded sets.                               *)

Date(y, m, d) == [year |-> y, month |-> m, day |-> d, minute |-> 0]

ScrapeDates ==
    {Date(2023, 12, 31), Date(2024, 1, 1), Date(2024, 1, 2),
     Date(2024, 2, 29), Date(2024, 3, 1), Date(2024, 6, 15)}

HarnessRows ==
    {RowOnTime, RowLate, RowPastMidnight, RowNoGate, RowNoCarrier,
     RowNoRoute, RowNoFlightNum, RowTwoCells, RowBadSched, RowBadBubble}

NotCalled == [status |-> "not called", flights |-> <<>>]

Idle ==
    /\ pc = "harness" /\ err = "none" /\ collabFailed = FALSE /\ run = 0
    /\ flight_table = NoTable /\ delayed_flights = NoTable
    /\ flights = <<>> /\ store = <<>> /\ updated = 0 /\ idx = 1
    /\ issued = 0 /\ applied = <<>> /\ reconciled = <<>>

InitParse ==
    /\ Idle
    /\ now \in ScrapeDates
    /\ table \in {NoTable} \cup {Board(r) : r \in BoundedSeq(HarnessRows, MaxTable)}
    /\ delayed \in BOOLEAN
    /\ result = NotCalled

CallParse ==
    /\ result = NotCalled
    /\ result' = parse_flights(table, now, delayed)
    /\ UNCHANGED <<now, table, delayed>>
    /\ UNCHANGED mainVars

NextParse == CallParse

SpecParse == InitParse /\ [][NextParse]_vars

----------------------------------------------------------------------------
(* The flights collection: insert_many, update_one.                        *)

\* conn.insert_many(flights): the documents are appended to the collection.
InsertMany(coll, docs) == coll \o docs

\* A query on the flight number alone (not the code's).
QueryByNumber(flight) == [flight_num |-> flight.flight_num]

\* The query update_flights builds for a record.
Query(flight) ==
    [scheduled_timestamp |-> flight.scheduled_timestamp,
     flight_num |-> flight.flight_num]

\* The update document: {"$set": {"actual_timestamp": ...}}.
Update(flight) ==
    [field |-> "actual_timestamp", value |-> flight.actual_timestamp]

\* A document matches a query when it has every field of the query with
\* the queried value.
Matches(doc, q) == \A f \in DOMAIN q : f \in DOMAIN doc /\ doc[f] = q[f]

\* $set: the document with the field set, added when it was absent.
SetField(doc, field, value) ==
    [f \in DOMAIN doc \cup {field} |-> IF f = field THEN value ELSE doc[f]]

\* update_one with upsert (not the code's): an update that matches nothing
\* inserts the queried fields with the field set.
UpdateOneUpsert(coll, q, u) ==
    LET hits == {k \in 1..Len(coll) : Matches(coll[k], q)} IN
    IF hits = {}
    THEN [matched_count |-> 0, modified_count |-> 0,
          coll |-> Append(coll, SetField(q, u.field, u.value)), hit |-> 0]
    ELSE LET k == CHOOSE j \in hits : \A l \in hits : j <= l
             new == SetField(coll[k], u.field, u.value)
         IN  [matched_count |-> 1,
              modified_count |-> IF new = coll[k] THEN 0 ELSE 1,
              coll |-> [coll EXCEPT ![k] = new],
              hit |-> k]

\* conn.update_one(query, update): the first matching document in the
\* collection's order is updated; modified_count counts it only if the
\* update changed it.
UpdateOne(coll, q, u) ==
    LET hits == {k \in 1..Len(coll) : Matches(coll[k], q)} IN
    IF hits = {}
    THEN [matched_count |-> 0, modified_count |-> 0, coll |-> coll, hit |-> 0]
    ELSE LET k == CHOOSE j \in hits : \A l \in hits : j <= l
             new == SetField(coll[k], u.field, u.value)
         IN  [matched_count |-> 1,
              modified_count |-> IF new = coll[k] THEN 0 ELSE 1,
              coll |-> [coll EXCEPT ![k] = new],
              hit |-> k]

\* Counting the matched documents (not the code's).
CountedMatched(res) == res.matched_count

\* What update_flights adds to its counter for one result.
Counted(res) == res.modified_count

----------------------------------------------------------------------------
(* main, one invocation after another against the same collection.         *)

StartDate == Date(2024, 6, 14)

TodayRows == {RowOnTime}
YesterdayRows == {RowOnTime, RowLate, RowLater}

Boards(rowSet) == {NoTable} \cup {Board(r) : r \in BoundedSeq(rowSet, MaxBoard)}

\* The records of a collection that carry the natural key of a record.
Holders(coll, flight) ==
    {k \in 1..Len(coll) :
        /\ coll[k].flight_num = flight.flight_num
        /\ coll[k].scheduled_timestamp = flight.scheduled_timestamp}

Intent(flight) ==
    [flight_num |-> flight.flight_num,
     scheduled_timestamp |-> flight.scheduled_timestamp,
     actual_timestamp |-> flight.actual_timestamp]

Init ==
    /\ now = StartDate
    /\ pc = "fetch" /\ err = "none" /\ collabFailed = FALSE /\ run = 1
    /\ flight_table = NoTable /\ delayed_flights = NoTable
    /\ flights = <<>> /\ store = <<>> /\ updated = 0 /\ idx = 1
    /\ issued = 0 /\ applied = <<>> /\ reconciled = <<>>
    /\ table = NoTable /\ delayed = FALSE /\ result = NotCalled

\* The run ends on an exception that nothing catches, or on exit(1).
Abort(exc, collaborator) ==
    /\ pc' = "aborted"
    /\ err' = exc
    /\ collabFailed' = collaborator

\* delayed_flights = get_flights(...); flight_table = get_flights(...)
Fetch ==
    /\ pc = "fetch"
    /\ \E t \in Boards(TodayRows), y \in Boards(YesterdayRows) :
          /\ flight_table' = t
          /\ delayed_flights' = y
    /\ pc' = "parse"
    /\ UNCHANGED <<now, err, collabFailed, run, flights, store, updated, idx,
                   issued, applied, reconciled>>
    /\ UNCHANGED harnessVars

\* requests.get raises: the board cannot be fetched.
FetchFails ==
    /\ pc = "fetch"
    /\ Abort("RequestException", TRUE)
    /\ UNCHANGED <<now, run, flight_table, delayed_flights, flights, store,
                   updated, idx, issued, applied, reconciled>>
    /\ UNCHANGED harnessVars

\* flights = parse_flights(flight_table)
ParseToday ==
    /\ pc = "parse"
    /\ LET r == parse_flights(flight_table, now, FALSE) IN
         IF r.status = "ok"
         THEN /\ flights' = r.flights
              /\ pc' = "save"
              /\ UNCHANGED <<err, collabFailed>>
         ELSE /\ Abort(r.status, FALSE)
              /\ UNCHANGED flights
    /\ UNCHANGED <<now, run, flight_table, delayed_flights, store, updated,
                   idx, issued, applied, reconciled>>
    /\ UNCHANGED harnessVars

\* The page and the parsed flights are written to files, then get_client()
\* and the handle of the collection.
SaveAndConnect ==
    /\ pc = "save"
    /\ pc' = "add"
    /\ UNCHANGED <<now, err, collabFailed, run, flight_table, delayed_flights,
                   flights, store, updated, idx, issued, applied,
                   reconciled>>
    /\ UNCHANGED harnessVars

\* A file cannot be written, the page cannot be fetched again, or
\* MongoClient raises (get_client exits).
SaveOrConnectFails ==
    /\ pc = "save"
    /\ Abort("IOError", TRUE)
    /\ UNCHANGED <<now, run, flight_table, delayed_flights, flights, store,
                   updated, idx, issued, applied, reconciled>>
    /\ UNCHANGED harnessVars

\* log_msg = add_flights(flights_collection, flights).  insert_many refuses
\* an empty list of documents; add_flights catches that and exits, as it
\* does for every failure of the store.
AddFlights ==
    /\ pc = "add"
    /\ flights # <<>>
    /\ store' = InsertMany(store, flights)
    /\ reconciled' = reconciled \o [k \in 1..Len(flights) |-> 0]
    /\ pc' = "delayed"
    /\ UNCHANGED <<now, err, collabFailed, run, flight_table, delayed_flights,
                   flights, updated, idx, issued, applied>>
    /\ UNCHANGED harnessVars

AddFlightsFails ==
    /\ pc = "add"
    /\ Abort(IF flights = <<>> THEN "TypeError in insert_many"
             ELSE "PyMongoError", TRUE)
    /\ UNCHANGED <<now, run, flight_table, delayed_flights, flights, store,
                   updated, idx, issued, applied, reconciled>>
    /\ UNCHANGED harnessVars

\* if delayed_flights: (None and the empty list are both false)
Truthy(board) == board.found /\ board.rows # <<>>

\* delayed_flights = parse_flights(delayed_flights, delayed=True), and the
\* entry of update_flights: updated = 0.
ParseDelayed ==
    /\ pc = "delayed"
    /\ Truthy(delayed_flights)
    /\ LET r == parse_flights(delayed_flights, now, TRUE) IN
         IF r.status = "ok"
         THEN /\ delayed_flights' = Board(r.flights)
              /\ pc' = "update"
              /\ updated' = 0
              /\ idx' = 1
              /\ UNCHANGED <<err, collabFailed>>
         ELSE /\ Abort(r.status, FALSE)
              /\ UNCHANGED <<delayed_flights, updated, idx>>
    /\ UNCHANGED <<now, run, flight_table, flights, store, issued, applied, reconciled>>
    /\ UNCHANGED harnessVars

SkipDelayed ==
    /\ pc = "delayed"
    /\ ~Truthy(delayed_flights)
    /\ pc' = "log"
    /\ UNCHANGED <<now, err, collabFailed, run, flight_table, delayed_flights,
                   flights, store, updated, idx, issued, applied,
                   reconciled>>
    /\ UNCHANGED harnessVars

\* One iteration of the loop of update_flights over a record that carries
\* actual_timestamp: the query, the update, update_one, the counter.
UpdateFlight ==
    /\ pc = "update"
    /\ idx <= Len(delayed_flights.rows)
    /\ LET flight == delayed_flights.rows[idx] IN
         /\ "actual_timestamp" \in DOMAIN flight
         /\ LET res == UpdateOne(store, Query(flight), Update(flight)) IN
              /\ store' = res.coll
              /\ updated' = updated + Counted(res)
              /\ reconciled' =
                    IF res.hit # 0 /\ res.coll # store
                    THEN [reconciled EXCEPT ![res.hit] = @ + 1]
                    ELSE reconciled
              /\ applied' =
                    (IF Len(applied) = 2 THEN Tail(applied) ELSE applied)
                    \o <<[intent |-> Intent(flight),
                          holders |-> Cardinality(Holders(store, flight)),
                          reported |-> Counted(res),
                          changed |-> res.coll # store,
                          records |-> [k \in Holders(store, flight) |->
                                          res.coll[k]],
                          virgin |-> \A k \in Holders(store, flight) :
                                        reconciled[k] = 0]>>
    /\ idx' = idx + 1
    /\ issued' = issued + 1
    /\ UNCHANGED <<now, pc, err, collabFailed, run, flight_table,
                   delayed_flights, flights>>
    /\ UNCHANGED harnessVars

\* update = {"$set": {"actual_timestamp": flight["actual_timestamp"]}} on a
\* record without that key: KeyError, outside the try.
UpdateFlightKeyError ==
    /\ pc = "update"
    /\ idx <= Len(delayed_flights.rows)
    /\ "actual_timestamp" \notin DOMAIN delayed_flights.rows[idx]
    /\ Abort("KeyError", FALSE)
    /\ UNCHANGED <<now, run, flight_table, delayed_flights, flights, store,
                   updated, idx, issued, applied, reconciled>>
    /\ UNCHANGED harnessVars

\* update_one raises: the except branch logs and exits.
UpdateFlightFails ==
    /\ pc = "update"
    /\ idx <= Len(delayed_flights.rows)
    /\ "actual_timestamp" \in DOMAIN delayed_flights.rows[idx]
    /\ Abort("PyMongoError", TRUE)
    /\ UNCHANGED <<now, run, flight_table, delayed_flights, flights, store,
                   updated, idx, issued, applied, reconciled>>
    /\ UNCHANGED harnessVars

\* return f"; Updated {updated} documents"
UpdateReturn ==
    /\ pc = "update"
    /\ idx > Len(delayed_flights.rows)
    /\ pc' = "save_delayed"
    /\ UNCHANGED <<now, err, collabFailed, run, flight_table, delayed_flights,
                   flights, store, updated, idx, issued, applied,
                   reconciled>>
    /\ UNCHANGED harnessVars

\* The file of the delayed flights is written with
\* str(parse_flights(delayed_flights)): delayed_flights now holds the parsed
\* records, not rows of the board.
SaveDelayed ==
    /\ pc = "save_delayed"
    /\ LET r == parse_flights(delayed_flights, now, FALSE) IN
         IF r.status = "ok"
         THEN /\ pc' = "log"
              /\ UNCHANGED <<err, collabFailed>>
         ELSE Abort(r.status, FALSE)
    /\ UNCHANGED <<now, run, flight_table, delayed_flights, flights, store,
                   updated, idx, issued, applied, reconciled>>
    /\ UNCHANGED harnessVars

\* LOGGER.info(log_msg); client.close()
LogAndClose ==
    /\ pc = "log"
    /\ pc' = "done"
    /\ UNCHANGED <<now, err, collabFailed, run, flight_table, delayed_flights,
                   flights, store, updated, idx, issued, applied,
                   reconciled>>
    /\ UNCHANGED harnessVars

\* The job is started again, the same day or the day after; only the
\* collection outlives a run.
NextRun ==
    /\ pc \in {"done", "aborted"}
    /\ run < MaxRuns
    /\ run' = run + 1
    /\ now' \in {now, PlusOneDay(now)}
    /\ pc' = "fetch" /\ err' = "none" /\ collabFailed' = FALSE
    /\ flight_table' = NoTable /\ delayed_flights' = NoTable
    /\ flights' = <<>> /\ updated' = 0 /\ idx' = 1 /\ issued' = 0
    /\ UNCHANGED <<store, applied, reconciled>>
    /\ UNCHANGED harnessVars

Next ==
    \/ Fetch \/ FetchFails
    \/ ParseToday
    \/ SaveAndConnect \/ SaveOrConnectFails
    \/ AddFlights \/ AddFlightsFails
    \/ ParseDelayed \/ SkipDelayed
    \/ UpdateFlight \/ UpdateFlightKeyError \/ UpdateFlightFails
    \/ UpdateReturn
    \/ SaveDelayed
    \/ LogAndClose
    \/ NextRun

Spec == Init /\ [][Next]_vars

----------------------------------------------------------------------------
(* Properties of parse_flights, read off the harness once it has returned. *)

HasActual(f) == "actual_timestamp" \in DOMAIN f

Returned == result.status = "ok"

Today == ToOrdinal(now)

\* The instants a record carries.
Instants(f) ==
    {f.scheduled_timestamp}
    \cup (IF HasActual(f) THEN {f.actual_timestamp} ELSE {})

\* C1: every timestamp parse_flights resolves lies in the year that puts it
\* no more than a few (three) days after the day of the scrape and less
\* than a year before that limit, for scheduled_timestamp and
\* actual_timestamp alike.
C1_YearPlacesInstantNearScrape ==
    Returned =>
        \A i \in 1..Len(result.flights) :
            \A ts \in Instants(result.flights[i]) :
                /\ LocalDay(ts) <= Today + 3
                /\ LocalDay(ts) > Today + 3 - 365

\* C2: on the prior-day board, the actual_timestamp of a row lies on the
\* calendar day after the scheduled one when the actual clock time is
\* before the scheduled clock time, and on the same calendar day otherwise.
C2_ActualDayFollowsClockOrder ==
    (delayed /\ Returned) =>
        \A i \in 1..Len(result.flights) :
            LET f == result.flights[i] IN
            HasActual(f) =>
                LocalDay(f.actual_timestamp) =
                    LocalDay(f.scheduled_timestamp)
                    + (IF LocalClock(f.actual_timestamp)
                            < LocalClock(f.scheduled_timestamp)
                       THEN 1 ELSE 0)

Required == {"gate", "carrier", "flight", "route"}

Kinds(row) == {row.tds[j].kind : j \in 1..Len(row.tds)}

TimesParse(row) ==
    /\ ParseClock(row.sched) >= 0
    /\ row.bubble # <<>> => ParseClock(row.bubble[1]) >= 0

Complete(row) == Kinds(row) = Required /\ TimesParse(row)

Without(rows, k) == SubSeq(rows, 1, k - 1) \o SubSeq(rows, k + 1, Len(rows))

\* What parse_flights gives for the board without its row k.
ParsedWithout(k) == parse_flights(Board(Without(table.rows, k)), now, delayed)

\* Row k is the only row of the table that is not complete, and the other
\* rows parse on this date.
OnlyFaultyRow(k) ==
    /\ \A j \in 1..Len(table.rows) : j # k => Complete(table.rows[j])
    /\ ParsedWithout(k).status = "ok"

\* C3: when exactly one row of the board lacks a required field (gate,
\* carrier, flight number or route), parse_flights returns, and returns the
\* records of the other rows in board order: what it returns for the board
\* without that row, and nothing for the row itself.
C3_RowWithoutRequiredFieldIsSkipped ==
    (table.found /\ result # NotCalled) =>
        \A k \in 1..Len(table.rows) :
            (/\ Kinds(table.rows[k]) # Required
             /\ TimesParse(table.rows[k])
             /\ OnlyFaultyRow(k))
            => /\ result = ParsedWithout(k)
               /\ Len(result.flights) = Len(table.rows) - 1

\* C7: when exactly one row of the board has a scheduled or delay time
\* text that does not parse, parse_flights drops that row and returns the
\* records of the other rows.
C7_RowWithBadTimeIsSkipped ==
    (table.found /\ result # NotCalled) =>
        \A k \in 1..Len(table.rows) :
            (/\ Kinds(table.rows[k]) = Required
             /\ ~TimesParse(table.rows[k])
             /\ OnlyFaultyRow(k))
            => result = ParsedWithout(k)

\* C10: in one pass over the prior-day board every scheduled_timestamp lies
\* on the day before the scrape and all actual_timestamps lie on one and
\* the same day, whatever the position of the row.
C10_DatesIndependentOfPosition ==
    (delayed /\ Returned) =>
        \A i, j \in 1..Len(result.flights) :
            LET f == result.flights[i]
                g == result.flights[j]
            IN  /\ LocalDay(f.scheduled_timestamp) = Today - 1
                /\ (HasActual(f) /\ HasActual(g)) =>
                      LocalDay(f.actual_timestamp) = LocalDay(g.actual_timestamp)

----------------------------------------------------------------------------
(* Properties of the runs of main.                                         *)

Records == delayed_flights.rows

\* The applied updates in the history, oldest first.
First == applied[1]
Second == applied[2]

\* C4: the same update applied twice to a collection that holds exactly one
\* record with its key: the first application (to the record as inserted)
\* reports 1 modified document, the second reports 0 and leaves the
\* collection, and the record, as the first application left them.
C4_SecondApplicationModifiesNothing ==
    (/\ Len(applied) = 2
     /\ First.intent = Second.intent
     /\ First.holders = 1 /\ Second.holders = 1
     /\ First.virgin)
    => /\ First.reported = 1
       /\ Second.reported = 0
       /\ ~Second.changed
       /\ Second.records = First.records

\* A state in which the same update has been applied twice running to the
\* one record with its key.
C4_Witness ==
    /\ Len(applied) = 2
    /\ First.intent = Second.intent
    /\ First.holders = 1 /\ Second.holders = 1
    /\ First.virgin
    /\ Second.records # <<>>

C6_OneUpdatePerDelayedRecord ==
    /\ err # "KeyError"
    /\ pc \in {"update", "save_delayed"} =>
          issued = Cardinality({k \in 1..(idx - 1) : HasActual(Records[k])})

\* The key of a stored record and of a record being reconciled agree.
SameKey(doc, flight) ==
    /\ doc.flight_num = flight.flight_num
    /\ doc.scheduled_timestamp = flight.scheduled_timestamp

\* C8 as stated: a record that an update of update_flights has modified is
\* never changed by a later step of any run.
C8_ReconciledRecordNeverChanges ==
    [][\A k \in 1..Len(store) :
          reconciled[k] > 0 => (k <= Len(store') /\ store'[k] = store[k])]_vars

\* C8, amended: a record that an update of update_flights has modified
\* stays in the collection with every field other than actual_timestamp
\* unchanged and with actual_timestamp set; its actual_timestamp is changed
\* only by a later update of update_flights with the record's own key.
C8_ReconciledRecordKeepsKeyAndFields ==
    [][\A k \in 1..Len(store) :
          reconciled[k] > 0 =>
            /\ k <= Len(store')
            /\ DOMAIN store'[k] = DOMAIN store[k]
            /\ HasActual(store'[k])
            /\ \A f \in DOMAIN store[k] \ {"actual_timestamp"} :
                  store'[k][f] = store[k][f]
            /\ store'[k] # store[k] =>
                  /\ pc = "update" /\ idx <= Len(Records)
                  /\ SameKey(store[k], Records[idx])]_vars

\* A state in which a record already reconciled has been through a later
\* add_flights and has been modified by a second update.
C8_Witness ==
    \E k \in 1..Len(store) : reconciled[k] >= 2 /\ Len(store) > k

\* C9: a run ends before its last step only when a collaborator has failed:
\* a fetch, a file, the store (which includes the insert that the store
\* refuses), or the page having no table of today's flights.  The run that
\* the KeyError of C6 ends is set aside here, so that what is refuted does
\* not rest on C6.
C9_RunStopsOnlyOnCollaboratorFailure ==
    pc = "aborted" =>
        \/ collabFailed
        \/ ~flight_table.found
        \/ err = "KeyError"

====
